---- MODULE Spec2Model ----
(***************************************************************************)
(* RNA-Seq registry (ensembl.rnaseq.registry): the five tables of          *)
(* database_schema.py and the operations of api.RnaseqRegistry, each       *)
(* operation modelled as one step that runs the whole method, commits      *)
(* included.  A database is a record of five sets of rows; an operation is *)
(* an operator from a database to an outcome [db, ret, err].               *)
(***************************************************************************)
EXTENDS Integers, Sequences, FiniteSets, TLC

VARIABLES component, organism, dataset, sample, accession, session

vars == <<component, organism, dataset, sample, accession, session>>

\* ------------------------------------------------------------------ bounds
\* Largest primary key a table may hand out.
MaxId == 2
\* Longest organism file (lines) and longest dataset document (records).
MaxLines == 2
MaxDocLen == 2

\* ------------------------------------------------------------ input values
CompNames == {"c1", "c2"}
Abbrevs == {"a", "b"}
DatasetNames == {"d1"}
\* Releases a dataset is retired or remapped at, and the release of a load.
Releases == {0, 1}
LoadReleases == {1}

\* ------------------------------------------------------------------ helpers
Max(S) == CHOOSE x \in S : \A y \in S : y <= x

\* An Optional[int]: <<>> is None, <<n>> is n.
None == <<>>
Some(n) == <<n>>

\* id: Mapped[int] = mapped_column(primary_key=True): SQLite gives a new row
\* one more than the largest key in use.
NextId(rows) == IF rows = {} THEN 1 ELSE Max({r.id : r \in rows}) + 1

\* The database the handle's engine points at.
db == [component |-> component, organism |-> organism, dataset |-> dataset,
       sample |-> sample, accession |-> accession]

EmptyDb == [component |-> {}, organism |-> {}, dataset |-> {},
            sample |-> {}, accession |-> {}]

\* Outcomes of an API call.
Ok(d, ret) == [db |-> d, ret |-> ret, err |-> "none"]
Raise(d, err) == [db |-> d, ret |-> -1, err |-> err]

\* ------------------------------------------------------ schema constraints
ComponentNameUnique_absent(d) == TRUE

\* Component.name: mapped_column(String, unique=True)
ComponentNameUnique(d) ==
    \A x, y \in d.component : x.name = y.name => x = y

OrganismAbbrevUnique_absent(d) == TRUE

\* Organism.abbrev: mapped_column(String, unique=True)
OrganismAbbrevUnique(d) ==
    \A x, y \in d.organism : x.abbrev = y.abbrev => x = y

DatasetUnique_absent(d) == TRUE

DatasetUnique_without_organism(d) ==
    \A x, y \in d.dataset :
        (x.name = y.name /\ x.latest = y.latest /\ x.retired = y.retired) => x = y

\* UniqueConstraint(name, organism_id, latest, retired)
DatasetUnique(d) ==
    \A x, y \in d.dataset :
        (x.name = y.name /\ x.organism_id = y.organism_id
            /\ x.latest = y.latest /\ x.retired = y.retired) => x = y

\* session.commit(): the flush writes the pending rows; a violated constraint
\* raises IntegrityError and the transaction is rolled back to `before`.
Commit(before, after) ==
    IF ComponentNameUnique(after) /\ OrganismAbbrevUnique(after) /\ DatasetUnique(after)
    THEN Ok(after, 0)
    ELSE Raise(before, "IntegrityError")

\* ------------------------------------------------------------- components
add_component(d, name) ==
    LET new_comp == [id |-> NextId(d.component), name |-> name]
    IN Commit(d, [d EXCEPT !.component = @ \cup {new_comp}])

\* get_component(name, create=False): the rows the select returns.
ComponentsNamed(d, name) == {c \in d.component : c.name = name}

get_component(d, name) == CHOOSE c \in ComponentsNamed(d, name) : TRUE

\* Organism.datasets has no delete cascade, so the flush that deletes an
\* organism blanks organism_id in each of its datasets; organism_id is
\* Mapped[int], a NOT NULL column, and the UPDATE raises IntegrityError.
DatasetsOf(d, orgs) == {ds \in d.dataset : ds.organism_id \in {o.id : o \in orgs}}

DeleteFlush_orphans(d, comps, orgs) ==
    Ok([d EXCEPT !.component = @ \ comps, !.organism = @ \ orgs], 0)

\* The flush of a delete of `comps` and `orgs` (Component.organisms has
\* cascade="all": the organisms of a deleted component are in `orgs`).
DeleteFlush(d, comps, orgs) ==
    IF DatasetsOf(d, orgs) # {}
    THEN Raise(d, "IntegrityError")
    ELSE Ok([d EXCEPT !.component = @ \ comps, !.organism = @ \ orgs], 0)

OrganismsOf(d, comp) == {o \in d.organism : o.component_id = comp.id}

remove_component(d, name) ==
    IF ComponentsNamed(d, name) = {}
    THEN Raise(d, "ValueError")
    ELSE LET comp == get_component(d, name)
         IN DeleteFlush(d, {comp}, OrganismsOf(d, comp))

\* -------------------------------------------------------------- organisms
add_organism(d, name, component_name) ==
    IF ComponentsNamed(d, component_name) = {}
    THEN Raise(d, "ValueError")
    ELSE LET comp == get_component(d, component_name)
             new_org == [id |-> NextId(d.organism), abbrev |-> name,
                         component_id |-> comp.id]
         IN Commit(d, [d EXCEPT !.organism = @ \cup {new_org}])

OrganismsNamed(d, name) == {o \in d.organism : o.abbrev = name}

get_organism(d, name) == CHOOSE o \in OrganismsNamed(d, name) : TRUE

remove_organism(d, name) ==
    IF OrganismsNamed(d, name) = {}
    THEN Raise(d, "ValueError")
    ELSE DeleteFlush(d, {}, {get_organism(d, name)})

\* list_organisms(): select(Organism).join(Component), an inner join.
list_organisms(d) ==
    {o \in d.organism : \E c \in d.component : c.id = o.component_id}

\* ---- load_organisms
\* A line of the file is its fields, the text between the tabs ("" between
\* two adjacent tabs or at an end of the line).
\* line.strip(): tabs are whitespace, so empty fields at both ends go.
RECURSIVE StripLeft(_)
StripLeft(fields) ==
    IF fields # <<>> /\ Head(fields) = "" THEN StripLeft(Tail(fields)) ELSE fields

RECURSIVE StripRight(_)
StripRight(fields) ==
    IF fields # <<>> /\ fields[Len(fields)] = ""
    THEN StripRight(SubSeq(fields, 1, Len(fields) - 1))
    ELSE fields

Strip(fields) == StripRight(StripLeft(fields))

KnownAbbrev_never(organism_abbrev, abbrevs) == FALSE

\* `if organism_abbrev in abbrevs: continue`
KnownAbbrev(organism_abbrev, abbrevs) == organism_abbrev \in abbrevs

\* The loop over the lines: `d` is the database so far (add_component commits
\* on the fly), `components` the names known, `abbrevs` the abbrevs known,
\* `new_orgs_data` the organisms to add after the loop.
RECURSIVE ScanLines(_, _, _, _, _)
ScanLines(d, lines, components, abbrevs, new_orgs_data) ==
    IF lines = <<>>
    THEN [db |-> d, err |-> "none", new_orgs_data |-> new_orgs_data]
    ELSE LET parts == Strip(Head(lines))
             rest == Tail(lines)
         IN IF parts = <<>>
            THEN ScanLines(d, rest, components, abbrevs, new_orgs_data)
            ELSE IF Len(parts) # 2
            THEN [db |-> d, err |-> "ValueError", new_orgs_data |-> new_orgs_data]
            ELSE LET component_name == parts[1]
                     organism_abbrev == parts[2]
                     added == IF component_name \in components
                              THEN Ok(d, 0)
                              ELSE add_component(d, component_name)
                 IN IF added.err # "none"
                    THEN [db |-> added.db, err |-> added.err,
                          new_orgs_data |-> new_orgs_data]
                    ELSE IF KnownAbbrev(organism_abbrev, abbrevs)
                    THEN ScanLines(added.db, rest, components \cup {component_name},
                                   abbrevs, new_orgs_data)
                    ELSE ScanLines(added.db, rest, components \cup {component_name},
                                   abbrevs \cup {organism_abbrev},
                                   Append(new_orgs_data,
                                          [name |-> organism_abbrev,
                                           component |-> component_name]))

\* The Organism rows built from new_orgs_data, keys in the order of add_all.
RECURSIVE OrgsToAdd(_, _, _)
OrgsToAdd(d, new_orgs_data, next_id) ==
    IF new_orgs_data = <<>>
    THEN {}
    ELSE {[id |-> next_id, abbrev |-> Head(new_orgs_data).name,
           component_id |-> get_component(d, Head(new_orgs_data).component).id]}
         \cup OrgsToAdd(d, Tail(new_orgs_data), next_id + 1)

load_organisms(d, input_file) ==
    LET components == {comp.name : comp \in d.component}
        abbrevs == {org.abbrev : org \in
                      UNION {OrganismsOf(d, comp) : comp \in d.component}}
        scan == ScanLines(d, input_file, components, abbrevs, <<>>)
    IN IF scan.err # "none"
       THEN Raise(scan.db, scan.err)
       ELSE LET orgs_to_add == OrgsToAdd(scan.db, scan.new_orgs_data,
                                         NextId(scan.db.organism))
                done == Commit(scan.db,
                               [scan.db EXCEPT !.organism = @ \cup orgs_to_add])
            IN IF done.err # "none"
               THEN done
               ELSE Ok(done.db, Len(scan.new_orgs_data))

\* --------------------------------------------------------------- datasets
\* Byte order of the strings of the model (SQLite compares TEXT with memcmp).
Alphabet == <<"a", "b", "c1", "c2", "d1", "d2", "s1", "s2", "x1", "x2">>
Rank(str) == CHOOSE i \in 1..Len(Alphabet) : Alphabet[i] = str

\* Optional[str] filters: `if component:` is false for None and for "".
Given(opt) == opt # None /\ opt[1] # ""

\* The rows of select(Dataset).join(Organism).join(Component).join(Sample)
\* .join(Accession): inner joins, one row per accession of the dataset.
Joined(d) ==
    {[ds |-> ds, org |-> o, comp |-> c, smp |-> s, acc |-> a] :
        ds \in d.dataset, o \in d.organism, c \in d.component,
        s \in d.sample, a \in d.accession}

JoinedRows(d, component_f, organism_f, dataset_name, release, latest) ==
    {r \in Joined(d) :
        /\ r.ds.organism_id = r.org.id
        /\ r.org.component_id = r.comp.id
        /\ r.smp.dataset_id = r.ds.id
        /\ r.acc.sample_id = r.smp.id
        /\ (Given(component_f) => r.comp.name = component_f[1])
        /\ (Given(organism_f) => r.org.abbrev = organism_f[1])
        /\ (Given(dataset_name) => r.ds.name = dataset_name[1])
        /\ (release # None => r.ds.release = release[1])
        /\ (latest # None => r.ds.latest = latest[1])}

SortKey_abbrev_descending(r) ==
    <<r.ds.release, Rank(r.comp.name), 0 - Rank(r.org.abbrev),
      Rank(r.ds.name), Rank(r.smp.name), Rank(r.acc.sra_id)>>

\* order_by(Dataset.release, Component.name, Organism.abbrev, Dataset.name,
\*          Sample.name, Accession.sra_id)
SortKey(r) == <<r.ds.release, Rank(r.comp.name), Rank(r.org.abbrev),
                Rank(r.ds.name), Rank(r.smp.name), Rank(r.acc.sra_id)>>

RECURSIVE KeyLess(_, _)
KeyLess(k1, k2) ==
    /\ k1 # <<>>
    /\ \/ Head(k1) < Head(k2)
       \/ Head(k1) = Head(k2) /\ KeyLess(Tail(k1), Tail(k2))

\* The sorted rows, then .unique(): each dataset at its first row.
RECURSIVE SortedUnique(_)
SortedUnique(rows) ==
    IF rows = {}
    THEN <<>>
    ELSE LET first == CHOOSE r \in rows : \A q \in rows : ~KeyLess(SortKey(q), SortKey(r))
         IN <<first.ds>> \o SortedUnique({q \in rows : q.ds # first.ds})

list_datasets(d, component_f, organism_f, dataset_name, release, latest) ==
    SortedUnique(JoinedRows(d, component_f, organism_f, dataset_name, release, latest))

Range(seq) == {seq[i] : i \in 1..Len(seq)}

\* retire_dataset(dataset, release): an UPDATE of the row, then commit.
retire_dataset(d, ds, release) ==
    LET retired == [ds EXCEPT !.latest = FALSE,
                              !.retired = IF release # None THEN release[1] ELSE @]
    IN Commit(d, [d EXCEPT !.dataset = (@ \ {ds}) \cup {retired}])

\* remove_dataset(dataset): Dataset.samples and Sample.accessions have
\* cascade="all", the delete takes the samples and their accessions along.
SamplesOf(d, ds) == {s \in d.sample : s.dataset_id = ds.id}
AccessionsOf(d, smps) == {a \in d.accession : a.sample_id \in {s.id : s \in smps}}

remove_dataset_keeps_samples(d, ds) == Ok([d EXCEPT !.dataset = @ \ {ds}], 0)

remove_dataset(d, ds) ==
    Ok([d EXCEPT !.dataset = @ \ {ds},
                 !.sample = @ \ SamplesOf(d, ds),
                 !.accession = @ \ AccessionsOf(d, SamplesOf(d, ds))], 0)

\* ---- load_datasets
\* A record of the document: [component, species, name, runs, release], with
\* release an Optional[int] (the key may be absent) and runs a sequence of
\* [name, accessions].

\* api.py passes trim_reads to Sample(...) and no_spliced to Dataset(...).
\* The model takes both columns as mapped (the Sample row carries the
\* trim_reads flag, the Dataset row the no_spliced flag); neither is read
\* back by any operation below.  With FALSE here the constructors of pass 2
\* raise TypeError on the first checked record.
FlagColumnsMapped == TRUE

DatasetById(d, id) == CHOOSE ds \in d.dataset : ds.id = id

OrganismById(d, id) == CHOOSE o \in d.organism : o.id = id

\* abbrevs = {org.abbrev: org for org in self.list_organisms()}
AbbrevsDict(d) == {[abbrev |-> o.abbrev, id |-> o.id] : o \in list_organisms(d)}

CurDatasets_with_retired(d) ==
    {[abbrev |-> OrganismById(d, ds.organism_id).abbrev, name |-> ds.name, id |-> ds.id] :
        ds \in Range(list_datasets(d, None, None, None, None, None))}

\* cur_datasets[organism.abbrev][name] = dataset, for the datasets that
\* list_datasets() returns (latest=True by default).
CurDatasets(d) ==
    {[abbrev |-> OrganismById(d, ds.organism_id).abbrev, name |-> ds.name, id |-> ds.id] :
        ds \in Range(list_datasets(d, None, None, None, None, Some(TRUE)))}

\* _check_json_data: the first run over the records.  add_organism and
\* retire_dataset commit at once, so `d` changes along the way; cur_datasets
\* is the snapshot taken before the run.
RECURSIVE check_json_data(_, _, _, _, _, _, _)
check_json_data(d, json_data, cur_datasets, abbrevs, release, replace, checked) ==
    IF json_data = <<>>
    THEN [db |-> d, err |-> "none", checked |-> checked, abbrevs |-> abbrevs]
    ELSE
    LET rec == Head(json_data)
        rest == Tail(json_data)
        known == \E e \in abbrevs : e.abbrev = rec.species
        added == IF ~known /\ replace
                 THEN add_organism(d, rec.species, rec.component)
                 ELSE Ok(d, 0)
        abbrevs1 == IF ~known /\ replace /\ added.err = "none"
                    THEN abbrevs \cup {[abbrev |-> rec.species,
                                        id |-> get_organism(added.db, rec.species).id]}
                    ELSE abbrevs
        cur == {e \in cur_datasets : e.abbrev = rec.species /\ e.name = rec.name}
        retired == IF cur # {} /\ replace /\ added.err = "none"
                   THEN retire_dataset(added.db,
                                       DatasetById(added.db, (CHOOSE e \in cur : TRUE).id),
                                       Some(release))
                   ELSE Ok(added.db, 0)
    IN IF ~known /\ ~replace
       THEN check_json_data(d, rest, cur_datasets, abbrevs, release, replace, checked)
       ELSE IF added.err # "none"
       THEN [db |-> added.db, err |-> added.err, checked |-> checked, abbrevs |-> abbrevs]
       ELSE IF cur # {} /\ ~replace
       THEN check_json_data(d, rest, cur_datasets, abbrevs1, release, replace, checked)
       ELSE IF retired.err # "none"
       THEN [db |-> retired.db, err |-> retired.err, checked |-> checked,
             abbrevs |-> abbrevs1]
       ELSE check_json_data(retired.db, rest, cur_datasets, abbrevs1, release, replace,
                            Append(checked, rec))

\* The rows of one run: Sample(name=run["name"], accessions=[Accession(sra_id=acc)...]).
AccessionRows(accs, sample_id, next_id) ==
    {[id |-> next_id + i - 1, sra_id |-> accs[i], sample_id |-> sample_id] :
        i \in 1..Len(accs)}

RECURSIVE SampleRows(_, _, _, _)
SampleRows(runs, dataset_id, next_sample, next_acc) ==
    IF runs = <<>>
    THEN [sample |-> {}, accession |-> {}]
    ELSE LET run == Head(runs)
             more == SampleRows(Tail(runs), dataset_id, next_sample + 1,
                                next_acc + Len(run.accessions))
         IN [sample |-> {[id |-> next_sample, name |-> run.name,
                          dataset_id |-> dataset_id]} \cup more.sample,
             accession |-> AccessionRows(run.accessions, next_sample, next_acc)
                           \cup more.accession]

NumAccessions(runs) ==
    LET RECURSIVE Count(_)
        Count(rs) == IF rs = <<>> THEN 0 ELSE Len(Head(rs).accessions) + Count(Tail(rs))
    IN Count(runs)

\* The second run over the checked records: the rows handed to add_all.
\* `release` is the local variable of load_datasets: a record with its own
\* release assigns it, and the assignment stays for the records after it.
RECURSIVE new_datasets_list(_, _, _, _, _, _)
new_datasets_list(checked, abbrevs, release, next_ds, next_sample, next_acc) ==
    IF checked = <<>>
    THEN [dataset |-> {}, sample |-> {}, accession |-> {}]
    ELSE LET rec == Head(checked)
             release1 == IF rec.release # None THEN rec.release[1] ELSE release
             org == CHOOSE e \in abbrevs : e.abbrev = rec.species
             new_dataset == [id |-> next_ds, name |-> rec.name, organism_id |-> org.id,
                             release |-> release1, retired |-> 0, latest |-> TRUE]
             children == SampleRows(rec.runs, next_ds, next_sample, next_acc)
             more == new_datasets_list(Tail(checked), abbrevs, release1, next_ds + 1,
                                       next_sample + Len(rec.runs),
                                       next_acc + NumAccessions(rec.runs))
         IN [dataset |-> {new_dataset} \cup more.dataset,
             sample |-> children.sample \cup more.sample,
             accession |-> children.accession \cup more.accession]

Gate_open(diff_data, ignore) == FALSE

Gate_whatever_ignore(diff_data, ignore) == diff_data > 0

\* `if diff_data > 0: if not ignore: ... return 0`
Gate(diff_data, ignore) == diff_data > 0 /\ ~ignore

AddAll(d, rows) ==
    [d EXCEPT !.dataset = @ \cup rows.dataset,
              !.sample = @ \cup rows.sample,
              !.accession = @ \cup rows.accession]

load_datasets(d, json_data, release, replace, ignore) ==
    LET pass1 == check_json_data(d, json_data, CurDatasets(d), AbbrevsDict(d),
                                 release, replace, <<>>)
        diff_data == Len(json_data) - Len(pass1.checked)
        rows == new_datasets_list(pass1.checked, pass1.abbrevs, release,
                                  NextId(pass1.db.dataset), NextId(pass1.db.sample),
                                  NextId(pass1.db.accession))
        done == Commit(pass1.db, AddAll(pass1.db, rows))
    IN IF pass1.err # "none"
       THEN Raise(pass1.db, pass1.err)
       ELSE IF Gate(diff_data, ignore)
       THEN Ok(pass1.db, 0)
       ELSE IF pass1.checked # <<>> /\ ~FlagColumnsMapped
       THEN Raise(pass1.db, "TypeError")
       ELSE IF done.err # "none"
       THEN done
       ELSE Ok(done.db, Len(pass1.checked))

\* ---- remap
\* Deep copy of each latest dataset of org_from that list_datasets returns.
RECURSIVE CopiedRuns(_, _)
CopiedRuns(d, smps) ==
    IF smps = {}
    THEN <<>>
    ELSE LET s == CHOOSE x \in smps : \A y \in smps : x.id <= y.id
             accs == AccessionsOf(d, {s})
             RECURSIVE AccSeq(_)
             AccSeq(as) == IF as = {} THEN <<>>
                           ELSE LET a == CHOOSE x \in as : \A y \in as : x.id <= y.id
                                IN <<a.sra_id>> \o AccSeq(as \ {a})
         IN <<[name |-> s.name, accessions |-> AccSeq(accs)]>> \o CopiedRuns(d, smps \ {s})

RECURSIVE new_datasets(_, _, _, _, _, _, _)
new_datasets(d, datasets_from, new_org, release, next_ds, next_sample, next_acc) ==
    IF datasets_from = <<>>
    THEN [dataset |-> {}, sample |-> {}, accession |-> {}]
    ELSE LET old_dataset == Head(datasets_from)
             runs == CopiedRuns(d, SamplesOf(d, old_dataset))
             copy == [id |-> next_ds, name |-> old_dataset.name,
                      organism_id |-> new_org.id, release |-> release,
                      retired |-> 0, latest |-> TRUE]
             children == SampleRows(runs, next_ds, next_sample, next_acc)
             more == new_datasets(d, Tail(datasets_from), new_org, release, next_ds + 1,
                                  next_sample + Len(runs), next_acc + NumAccessions(runs))
         IN [dataset |-> {copy} \cup more.dataset,
             sample |-> children.sample \cup more.sample,
             accession |-> children.accession \cup more.accession]

\* The loop `for old_dataset in datasets_from: self.retire_dataset(...)`:
\* every retire commits on its own.
RECURSIVE RetireAll(_, _, _)
RetireAll(d, ids, release) ==
    IF ids = <<>>
    THEN Ok(d, 0)
    ELSE LET one == retire_dataset(d, DatasetById(d, Head(ids)), Some(release))
         IN IF one.err # "none" THEN one ELSE RetireAll(one.db, Tail(ids), release)

\* remap with the target organism looked up before the sources are listed.
remap_looks_up_target_first(d, org_from, org_to, release, retire_remapped) ==
    LET datasets_from == list_datasets(d, None, Some(org_from), None, None, Some(TRUE))
        new_org == get_organism(d, org_to)
        rows == new_datasets(d, datasets_from, new_org, release, NextId(d.dataset),
                             NextId(d.sample), NextId(d.accession))
        retired == IF retire_remapped
                   THEN RetireAll(d, [i \in 1..Len(datasets_from) |-> datasets_from[i].id],
                                  release)
                   ELSE Ok(d, 0)
        done == Commit(retired.db, AddAll(retired.db, rows))
    IN IF OrganismsNamed(d, org_to) = {}
       THEN Raise(d, "ValueError")
       ELSE IF datasets_from = <<>>
       THEN Ok(d, 0)
       ELSE IF retired.err # "none"
       THEN retired
       ELSE done

remap(d, org_from, org_to, release, retire_remapped) ==
    LET datasets_from == list_datasets(d, None, Some(org_from), None, None, Some(TRUE))
        new_org == get_organism(d, org_to)
        rows == new_datasets(d, datasets_from, new_org, release, NextId(d.dataset),
                             NextId(d.sample), NextId(d.accession))
        retired == IF retire_remapped
                   THEN RetireAll(d, [i \in 1..Len(datasets_from) |-> datasets_from[i].id],
                                  release)
                   ELSE Ok(d, 0)
        done == Commit(retired.db, AddAll(retired.db, rows))
    IN IF datasets_from = <<>>
       THEN Ok(d, 0)
       ELSE IF OrganismsNamed(d, org_to) = {}
       THEN Raise(d, "ValueError")
       ELSE IF retired.err # "none"
       THEN retired
       ELSE done

\* ------------------------------------------------------------------ inputs
SeqsUpTo(S, n) == UNION {[1..k -> S] : k \in 0..n}

\* Lines of an organism file: the well-formed ones, a blank one, one with a
\* trailing tab and one with three fields.
Lines ==
    {<<c, o>> : c \in CompNames, o \in Abbrevs}
        \cup {<<"">>, <<"c1", "">>, <<"c1", "a", "b">>}

OrganismFiles == SeqsUpTo(Lines, MaxLines)

\* runs of a record: none, one run with one accession, one run with two.
RunsChoices ==
    {<<>>, <<[name |-> "s1", accessions |-> <<"x1">>]>>,
     <<[name |-> "s1", accessions |-> <<"x2", "x1">>]>>}

\* The records carry every key _check_json_data reads; none has a release
\* of its own.
Records ==
    [component : CompNames, species : Abbrevs, name : DatasetNames,
     runs : RunsChoices, release : {None}]

\* Documents of up to MaxDocLen records that agree on component and runs.
Documents ==
    {doc \in SeqsUpTo(Records, MaxDocLen) :
        \A i, j \in 1..Len(doc) :
            doc[i].component = doc[j].component /\ doc[i].runs = doc[j].runs}

\* ----------------------------------------------------------------- actions
IdsWithin(d) ==
    \A r \in d.component \cup d.organism \cup d.dataset \cup d.sample \cup d.accession :
        r.id <= MaxId

\* One call on the handle.  After a flush failed the session's transaction
\* is inactive and nothing rolls it back: every later statement of the same
\* handle raises PendingRollbackError.
OnHandle(sess, d, out) ==
    IF sess = "inactive" THEN Raise(d, "PendingRollbackError") ELSE out

Call(out) ==
    LET res == OnHandle(session, db, out)
    IN /\ IdsWithin(res.db)
       /\ component' = res.db.component
       /\ organism' = res.db.organism
       /\ dataset' = res.db.dataset
       /\ sample' = res.db.sample
       /\ accession' = res.db.accession
       /\ session' = IF res.err = "IntegrityError" THEN "inactive" ELSE session

\* RnaseqRegistry(engine): a new handle with a new Session on the same database.
NewHandle ==
    /\ session' = "active"
    /\ UNCHANGED <<component, organism, dataset, sample, accession>>

AddComponent == \E name \in CompNames : Call(add_component(db, name))

RemoveComponent ==
    \E name \in CompNames : Call(remove_component(db, name))

AddOrganism ==
    \E name \in Abbrevs, component_name \in CompNames :
        Call(add_organism(db, name, component_name))

RemoveOrganism ==
    \E name \in Abbrevs : Call(remove_organism(db, name))

LoadOrganisms ==
    \E input_file \in OrganismFiles :
        Call(load_organisms(db, input_file))

LoadDatasets ==
    \E json_data \in Documents, release \in LoadReleases, replace \in BOOLEAN,
       ignore \in BOOLEAN :
        Call(load_datasets(db, json_data, release, replace, ignore))

RetireDataset ==
    \E ds \in dataset, release \in {None} \cup {Some(r) : r \in Releases} :
        Call(retire_dataset(db, ds, release))

RemoveDataset == \E ds \in dataset : Call(remove_dataset(db, ds))

Remap ==
    \E org_from \in Abbrevs, org_to \in Abbrevs, release \in Releases,
       retire_remapped \in BOOLEAN :
        Call(remap(db, org_from, org_to, release, retire_remapped))

Init ==
    /\ component = {}
    /\ organism = {}
    /\ dataset = {}
    /\ sample = {}
    /\ accession = {}
    /\ session = "active"

Next ==
    \/ NewHandle
    \/ AddComponent
    \/ RemoveComponent
    \/ AddOrganism
    \/ RemoveOrganism
    \/ LoadOrganisms
    \/ LoadDatasets
    \/ RetireDataset
    \/ RemoveDataset
    \/ Remap

Spec == Init /\ [][Next]_vars

\* ------------------------------------------------------------------ claims

\* C1: there are never two datasets with latest = true that share the same
\* organism and the same name.
OneLatestPerOrganismAndName ==
    \A x, y \in dataset :
        (x.latest /\ y.latest /\ x.organism_id = y.organism_id /\ x.name = y.name)
            => x = y

\* A second row for the same organism and name exists next to the latest one.
ReplacedDatasetKeepsOneLatest ==
    \E x, y \in dataset :
        /\ x.latest /\ ~y.latest
        /\ x.organism_id = y.organism_id /\ x.name = y.name

\* C2: every organism references exactly one stored component, every
\* dataset one stored organism, every sample one stored dataset and every
\* accession one stored sample.
ReferentialIntegrity ==
    /\ \A o \in organism : Cardinality({c \in component : c.id = o.component_id}) = 1
    /\ \A ds \in dataset : Cardinality({o \in organism : o.id = ds.organism_id}) = 1
    /\ \A s \in sample : Cardinality({ds \in dataset : ds.id = s.dataset_id}) = 1
    /\ \A a \in accession : Cardinality({s \in sample : s.id = a.sample_id}) = 1

\* An organism owns a dataset with a sample and an accession, and both
\* remove_organism on it and remove_component on its component are refused.
OwnerOrganismIsNotRemoved ==
    \E o \in organism, ds \in dataset, s \in sample, a \in accession :
        /\ ds.organism_id = o.id /\ s.dataset_id = ds.id /\ a.sample_id = s.id
        /\ remove_organism(db, o.abbrev) = Raise(db, "IntegrityError")
        /\ \E c \in component :
              /\ c.id = o.component_id
              /\ remove_component(db, c.name) = Raise(db, "IntegrityError")

\* C8: no two organisms share an abbreviation, whatever their components,
\* and add_organism with an abbreviation that exists fails and adds nothing.
AbbrevGloballyUnique ==
    /\ \A x, y \in organism : x.abbrev = y.abbrev => x = y
    /\ \A name \in Abbrevs, component_name \in CompNames :
          OrganismsNamed(db, name) # {} =>
              LET out == add_organism(db, name, component_name)
              IN out.err # "none" /\ out.db = db

\* Organism a exists, another component exists too, and adding a under that
\* other component raises IntegrityError.
SameAbbrevOtherComponentFails ==
    \E o \in organism, c \in component :
        /\ c.id # o.component_id
        /\ add_organism(db, o.abbrev, c.name) = Raise(db, "IntegrityError")

\* C9: add_component with a name that exists fails with IntegrityError and
\* leaves the stored components as they were.
DuplicateComponentFails ==
    \A name \in CompNames :
        ComponentsNamed(db, name) # {} =>
            LET out == add_component(db, name)
            IN out.err = "IntegrityError" /\ out.db.component = component

\* The handle after add_component raised on a name that exists: components
\* are stored, nothing else is, and the session's flush has failed.
DuplicateComponentRaised ==
    /\ component # {}
    /\ organism = {} /\ dataset = {}
    /\ session = "inactive"

\* ---- the load gate
\* A record fails the check pass of a load without replace when its organism
\* is not in the registry or a latest dataset that the check pass sees (one
\* of list_datasets()) has its organism and its name.
FailsCheck(rec) ==
    \/ \A o \in organism : o.abbrev # rec.species
    \/ \E ds \in Range(list_datasets(db, None, None, None, None, Some(TRUE))) :
          /\ ds.name = rec.name
          /\ \E o \in organism : o.id = ds.organism_id /\ o.abbrev = rec.species

Passing(doc) == {i \in 1..Len(doc) : ~FailsCheck(doc[i])}

\* K of the N records of doc.
NumFailing(doc) == Len(doc) - Cardinality(Passing(doc))

AddedDatasets(out) == out.db.dataset \ dataset

InsertsPassing(doc, out) ==
    /\ out.err = "none"
    /\ out.ret = Len(doc) - NumFailing(doc)
    /\ Cardinality(AddedDatasets(out)) = Len(doc) - NumFailing(doc)
    /\ \A i \in Passing(doc) :
          \E ds \in AddedDatasets(out) :
              /\ ds.name = doc[i].name /\ ds.latest
              /\ \E o \in organism : o.id = ds.organism_id /\ o.abbrev = doc[i].species
    /\ dataset \subseteq out.db.dataset
    /\ sample \subseteq out.db.sample
    /\ accession \subseteq out.db.accession
    /\ out.db.component = component /\ out.db.organism = organism

\* A passing record of doc has the organism and name of another passing
\* record or of a stored latest dataset.
PassingCollide(doc) ==
    \/ \E i, j \in Passing(doc) :
          i # j /\ doc[i].species = doc[j].species /\ doc[i].name = doc[j].name
    \/ \E i \in Passing(doc), ds \in dataset :
          /\ ds.latest /\ ds.name = doc[i].name
          /\ \E o \in organism : o.id = ds.organism_id /\ o.abbrev = doc[i].species

RecordsFor(o, name) == {rec \in Records : rec.species = o.abbrev /\ rec.name = name}

\* What a replace of the latest dataset old by a load at release R must
\* leave: the old row retired at R, a new latest row, one latest row in all.
Replaced(old, R, out) ==
    /\ out.err = "none"
    /\ [old EXCEPT !.latest = FALSE, !.retired = R] \in out.db.dataset
    /\ \E new \in out.db.dataset \ dataset :
          /\ new.name = old.name /\ new.organism_id = old.organism_id
          /\ new.latest /\ new.retired = 0
    /\ Cardinality({ds \in out.db.dataset :
                      /\ ds.latest /\ ds.name = old.name
                      /\ ds.organism_id = old.organism_id}) = 1

\* C5: where a latest dataset exists for (O, D), a load with replace = true
\* at release R of a record for (O, D) succeeds, leaves the old row with
\* latest = false and retired = R and inserts the new latest row with
\* retired = 0, also when (O, D) was replaced before at the same release R.
\* The latest datasets taken are those the check pass sees.
ReplaceRetiresOldInsertsNew ==
    \A old \in Range(list_datasets(db, None, None, None, None, Some(TRUE))),
       R \in LoadReleases :
        \A rec \in RecordsFor(OrganismById(db, old.organism_id), old.name) :
            Replaced(old, R, load_datasets(db, <<rec>>, R, TRUE, FALSE))

\* C6: with replace = true a record whose organism is not in the registry
\* has the organism created, and its component when none of that name is
\* stored, and the dataset loaded under the new organism.
ReplaceCreatesOrganismAndComponent ==
    \A rec \in Records, R \in LoadReleases :
        (\A o \in organism : o.abbrev # rec.species) =>
            LET out == load_datasets(db, <<rec>>, R, TRUE, FALSE)
            IN /\ out.err = "none"
               /\ \E c \in out.db.component, o \in out.db.organism :
                     /\ c.name = rec.component
                     /\ o.abbrev = rec.species /\ o.component_id = c.id
                     /\ \E ds \in out.db.dataset \ dataset :
                           ds.name = rec.name /\ ds.organism_id = o.id /\ ds.latest

\* ---- load_organisms
\* A well-formed file: every line is blank or has a component and an abbrev.
WellFormed(input_file) ==
    \A i \in 1..Len(input_file) :
        \/ Strip(input_file[i]) = <<>>
        \/ Len(Strip(input_file[i])) = 2 /\ Len(input_file[i]) = 2

\* C7: loading a well-formed organism file succeeds, and loading it a second
\* time succeeds, returns 0 and leaves the components and the organisms
\* those after the first load.
LoadOrganismsIdempotent ==
    \A input_file \in OrganismFiles :
        WellFormed(input_file) =>
            LET first == load_organisms(db, input_file)
                second == load_organisms(first.db, input_file)
            IN /\ first.err = "none"
               /\ second.err = "none" /\ second.ret = 0
               /\ second.db.component = first.db.component
               /\ second.db.organism = first.db.organism

\* The registry holds the two organisms of a file under its two components
\* and a load of the file adds nothing.
SecondLoadOfTwoOrganisms ==
    \E input_file \in OrganismFiles :
        /\ Len(input_file) = 2 /\ WellFormed(input_file)
        /\ Len(input_file[1]) = 2 /\ Len(input_file[2]) = 2
        /\ input_file[1][1] # input_file[2][1]
        /\ input_file[1][2] # input_file[2][2]
        /\ \A i \in 1..2 :
              \E c \in component, o \in organism :
                  /\ c.name = input_file[i][1] /\ o.abbrev = input_file[i][2]
                  /\ o.component_id = c.id
        /\ load_organisms(db, input_file) = Ok(db, 0)

\* ---- remove_component
\* C10: remove_component on a stored component succeeds and deletes it, its
\* organisms and all datasets, samples and accessions under them, also when
\* its organisms own datasets.
RemoveComponentCascades ==
    \A c \in component :
        LET out == remove_component(db, c.name)
            orgs == OrganismsOf(db, c)
            dss == DatasetsOf(db, orgs)
            smps == UNION {SamplesOf(db, ds) : ds \in dss}
        IN /\ out.err = "none"
           /\ c \notin out.db.component
           /\ out.db.organism \cap orgs = {}
           /\ out.db.dataset \cap dss = {}
           /\ out.db.sample \cap smps = {}
           /\ out.db.accession \cap AccessionsOf(db, smps) = {}

\* ---- remove_dataset
\* C11: remove_dataset(d) deletes the row of d, all of its samples and all
\* accessions of those samples, and leaves every other dataset, sample,
\* accession, organism and component as it was.
RemoveDatasetFrame ==
    \A ds \in dataset :
        LET out == remove_dataset(db, ds)
        IN /\ out.err = "none"
           /\ out.db.dataset = {x \in dataset : x # ds}
           /\ out.db.sample = {s \in sample : s.dataset_id # ds.id}
           /\ out.db.accession =
                 {a \in accession :
                     \A s \in sample : s.id = a.sample_id => s.dataset_id # ds.id}
           /\ out.db.organism = organism
           /\ out.db.component = component

\* Two datasets are stored, each with a sample and an accession: removing
\* one has rows to delete and rows to leave.
TwoDatasetsWithSamples ==
    \E x, y \in dataset :
        /\ x # y
        /\ \A ds \in {x, y} :
              \E s \in sample, a \in accession :
                  s.dataset_id = ds.id /\ a.sample_id = s.id
        /\ remove_dataset(db, x).db.dataset = {y}

\* ---- retire_dataset
\* C12: after retire_dataset(d, release = R) on a latest dataset d, d is
\* still stored, its retired field is R, it is absent from list_datasets()
\* (latest = true by default) and present in list_datasets(latest = None).
RetiredDatasetListedOnlyWithoutLatest ==
    \A d \in dataset, R \in Releases :
        LET out == retire_dataset(db, d, Some(R))
            after == {x \in out.db.dataset : x.id = d.id}
        IN (d.latest /\ out.err = "none") =>
              /\ after = {[d EXCEPT !.latest = FALSE, !.retired = R]}
              /\ \A x \in Range(list_datasets(out.db, None, None, None, None, Some(TRUE))) :
                    x.id # d.id
              /\ \E x \in Range(list_datasets(out.db, None, None, None, None, None)) :
                    x.id = d.id

\* ---- remap
\* The content of a dataset: its sample names, each with its accession ids,
\* and how many samples and accessions it has.
ContentOf(d, ds) ==
    [runs |-> {<<s.name, {a.sra_id : a \in AccessionsOf(d, {s})}>> : s \in SamplesOf(d, ds)},
     samples |-> Cardinality(SamplesOf(d, ds)),
     accessions |-> Cardinality(AccessionsOf(d, SamplesOf(d, ds)))]

LatestUnder(d, abbrev) ==
    {ds \in d.dataset :
        ds.latest /\ \E o \in d.organism : o.id = ds.organism_id /\ o.abbrev = abbrev}

\* new is a copy of old made by a remap to org_to at release R: a new latest
\* row under org_to with old's name and content, its sample and accession
\* rows new as well.
IsCopy(out, old, new, org_to, R) ==
    /\ new \notin dataset
    /\ new.id # old.id
    /\ new.name = old.name /\ new.release = R /\ new.latest
    /\ \E o \in out.db.organism : o.id = new.organism_id /\ o.abbrev = org_to
    /\ ContentOf(out.db, new) = ContentOf(db, old)
    /\ SamplesOf(out.db, new) \cap sample = {}
    /\ AccessionsOf(out.db, SamplesOf(out.db, new)) \cap accession = {}

\* C13: after a successful remap(A, B, release = R) every dataset that was
\* latest under A has a new latest copy under B with its name, release R and
\* its sample names and accession ids, in rows distinct from the originals;
\* with retire_source = false the originals under A are unchanged.
RemapCopiesEveryLatest ==
    \A org_from \in Abbrevs, org_to \in Abbrevs, R \in Releases,
       retire_remapped \in BOOLEAN :
        LET out == remap(db, org_from, org_to, R, retire_remapped)
        IN out.err = "none" =>
              /\ \A old \in LatestUnder(db, org_from) :
                    \E new \in out.db.dataset : IsCopy(out, old, new, org_to, R)
              /\ ~retire_remapped =>
                    /\ dataset \subseteq out.db.dataset
                    /\ sample \subseteq out.db.sample
                    /\ accession \subseteq out.db.accession

\* C14: remap(A, B, release, retire_source = true) is all or nothing: either
\* every copy is created under B and every source dataset is retired, or,
\* when the call fails, no source dataset under A has been retired and no
\* copy has been created.  The sources are the latest datasets under A that
\* remap reads.
RemapWithRetireAllOrNothing ==
    \A org_from \in Abbrevs, org_to \in Abbrevs, R \in Releases :
        LET out == remap(db, org_from, org_to, R, TRUE)
            sources == Range(list_datasets(db, None, Some(org_from), None, None, Some(TRUE)))
        IN IF out.err = "none"
           THEN \A old \in sources :
                   /\ \E new \in out.db.dataset : IsCopy(out, old, new, org_to, R)
                   /\ [old EXCEPT !.latest = FALSE, !.retired = R] \in out.db.dataset
           ELSE out.db.dataset = dataset

\* ---- list_datasets
\* The filters a caller may pass.
Opt(S) == {None} \cup {Some(x) : x \in S}

\* ds satisfies the filters that are given.
Matches(ds, component_f, organism_f, dataset_name, release, latest) ==
    /\ \E o \in organism, c \in component :
          /\ o.id = ds.organism_id /\ c.id = o.component_id
          /\ (component_f # None => c.name = component_f[1])
          /\ (organism_f # None => o.abbrev = organism_f[1])
    /\ (dataset_name # None => ds.name = dataset_name[1])
    /\ (release # None => ds.release = release[1])
    /\ (latest # None => ds.latest = latest[1])

\* C15: list_datasets returns exactly the stored datasets that satisfy every
\* filter supplied, a filter left out restricting nothing; a dataset without
\* samples, or whose samples have no accessions, is returned as any other.
ListDatasetsReturnsAllMatching ==
    \A component_f \in Opt(CompNames), organism_f \in Opt(Abbrevs),
       dataset_name \in Opt(DatasetNames), release \in Opt(Releases),
       latest \in Opt(BOOLEAN) :
        Range(list_datasets(db, component_f, organism_f, dataset_name, release, latest))
            = {ds \in dataset :
                  Matches(ds, component_f, organism_f, dataset_name, release, latest)}

\* (release, component name, organism abbrev, dataset name) of a dataset.
OrderKey(ds) ==
    LET o == CHOOSE o \in organism : o.id = ds.organism_id
        c == CHOOSE c \in component : c.id = o.component_id
    IN <<ds.release, Rank(c.name), Rank(o.abbrev), Rank(ds.name)>>

\* k1 is before k2 in the lexicographic order of the four fields.
Before(k1, k2) ==
    \E n \in 1..4 : k1[n] < k2[n] /\ \A m \in 1..(n - 1) : k1[m] = k2[m]

\* No element of the list is before one with a smaller key.
SortedByOrderKey(list) ==
    \A i, j \in 1..Len(list) :
        i < j => ~Before(OrderKey(list[j]), OrderKey(list[i]))

ReleaseRecords ==
    [component : CompNames, species : Abbrevs, name : DatasetNames,
     runs : RunsChoices, release : Opt(Releases)]

ReleaseDocuments == SeqsUpTo(ReleaseRecords, MaxDocLen)

\* C17: every record that load_datasets(release = R) inserts is stored with
\* its own release when it has one and with R otherwise, wherever it stands
\* in the document and whatever the releases of the records before it.
LoadedReleaseIsOwnOrGiven ==
    \A doc \in ReleaseDocuments, R \in LoadReleases :
        LET out == load_datasets(db, doc, R, FALSE, TRUE)
        IN out.err = "none" =>
              \A new \in out.db.dataset \ dataset, i \in 1..Len(doc) :
                  (/\ new.name = doc[i].name
                   /\ \E o \in organism : o.id = new.organism_id /\ o.abbrev = doc[i].species)
                      => new.release = IF doc[i].release # None THEN doc[i].release[1] ELSE R

\* ---- dump_datasets
\* Dataset.to_json_struct: the record of a dataset.  "release" is always
\* written; the runs follow the samples of the dataset and their accessions.
to_json_struct(d, ds) ==
    LET o == OrganismById(d, ds.organism_id)
        c == CHOOSE c \in d.component : c.id = o.component_id
    IN [component |-> c.name, species |-> o.abbrev, name |-> ds.name,
        release |-> Some(ds.release), runs |-> CopiedRuns(d, SamplesOf(d, ds))]

\* dump_datasets(dump_path, datasets): the document written, as json.load
\* reads it back (strings, integers and lists are written as they are).
dump_datasets(d, datasets) ==
    [i \in 1..Len(datasets) |-> to_json_struct(d, datasets[i])]

\* What the round trip compares of a dataset: component, species, name,
\* release, runs and accessions.
Described(d, ds) ==
    LET o == OrganismById(d, ds.organism_id)
        c == CHOOSE c \in d.component : c.id = o.component_id
    IN [component |-> c.name, species |-> o.abbrev, name |-> ds.name,
        release |-> ds.release, content |-> ContentOf(d, ds)]

\* Loading the document `dumped` into the registry `second` with some
\* choice of the flags gives datasets equivalent to `datasets` of d.
RoundTrip(d, datasets, second) ==
    \E replace \in BOOLEAN, ignore \in BOOLEAN :
        LET out == load_datasets(second, dump_datasets(d, datasets), 0, replace, ignore)
        IN /\ out.err = "none"
           /\ {Described(out.db, ds) : ds \in out.db.dataset}
                 = {Described(d, ds) : ds \in Range(datasets)}

\* C18: dumping the datasets of the registry and loading the dumped document
\* into an empty second registry gives datasets equivalent to the dumped
\* ones (component, species, name, release, runs and accessions).
DumpLoadRoundTrip ==
    RoundTrip(db, list_datasets(db, None, None, None, None, Some(TRUE)), EmptyDb)

\* ---- duplicates of retired datasets
\* The stored datasets of organism o with the name given.
StoredFor(o, name) == {ds \in dataset : ds.organism_id = o.id /\ ds.name = name}

OnlyRetiredFor(o, name) ==
    StoredFor(o, name) # {} /\ \A ds \in StoredFor(o, name) : ~ds.latest

\* C19: when the only stored datasets for (O, D) are retired, a record for
\* (O, D) loaded with replace = false passes the check pass, is not counted
\* as skipped and is inserted as the latest dataset for (O, D).
RetiredRowsAreNoDuplicates ==
    \A o \in organism, name \in DatasetNames, R \in LoadReleases :
        OnlyRetiredFor(o, name) =>
            \A rec \in RecordsFor(o, name) :
                LET out == load_datasets(db, <<rec>>, R, FALSE, FALSE)
                    latest == {ds \in out.db.dataset :
                                  ds.latest /\ ds.organism_id = o.id /\ ds.name = name}
                IN /\ out.err = "none" /\ out.ret = 1
                   /\ Cardinality(latest) = 1
                   /\ latest = out.db.dataset \ dataset
                   /\ dataset \subseteq out.db.dataset

\* Only a retired dataset with a sample and an accession is stored for an
\* organism, and a load of a record of its name returns 1.
LoadsOverRetiredDataset ==
    \E o \in organism, name \in DatasetNames :
        /\ OnlyRetiredFor(o, name)
        /\ \E ds \in StoredFor(o, name) : AccessionsOf(db, SamplesOf(db, ds)) # {}
        /\ \E rec \in RecordsFor(o, name) :
              load_datasets(db, <<rec>>, 1, FALSE, FALSE).ret = 1

\* ---- two records of one name
\* The organism of the record is stored and owns no latest dataset of the
\* record's name: the record is a new dataset of a known organism.
NewForKnownOrganism(rec) ==
    /\ \E o \in organism : o.abbrev = rec.species
    /\ \A o \in organism, ds \in dataset :
          (o.abbrev = rec.species /\ ds.organism_id = o.id /\ ds.name = rec.name)
              => ~ds.latest

RemapRetiresEverySource ==
    \A org_from \in Abbrevs, org_to \in Abbrevs, R \in Releases :
        LET out == remap(db, org_from, org_to, R, TRUE)
        IN out.err = "none" =>
              /\ \A old \in LatestUnder(db, org_from) :
                    [old EXCEPT !.latest = FALSE, !.retired = R] \in out.db.dataset
              /\ org_from # org_to => LatestUnder(out.db, org_from) = {}

\* C22: remap(A, B, ...) when organism A owns no latest dataset returns
\* without error and leaves the whole registry as it was, whatever
\* retire_source is and whether or not B is stored.
RemapWithoutSourcesIsNoOp ==
    \A org_from \in Abbrevs, org_to \in Abbrevs, R \in Releases, retire \in BOOLEAN :
        LatestUnder(db, org_from) = {} =>
            remap(db, org_from, org_to, R, retire) = Ok(db, 0)

\* A stored organism whose only dataset is retired is remapped to an
\* organism that is not stored.
RemapOfRetiredToUnknown ==
    \E org_from \in Abbrevs, org_to \in Abbrevs :
        /\ OrganismsNamed(db, org_from) # {}
        /\ OrganismsNamed(db, org_to) = {}
        /\ \E ds \in dataset :
              /\ ~ds.latest
              /\ \E o \in organism : o.id = ds.organism_id /\ o.abbrev = org_from
        /\ LatestUnder(db, org_from) = {}
        /\ remap(db, org_from, org_to, 1, TRUE) = Ok(db, 0)

\* C23: a handle stays usable after add_component, add_organism or
\* load_datasets raised an integrity error on its commit: whatever has failed
\* on the handle before, add_component with a name that is not stored succeeds
\* on the same handle and adds the component to the registry as stored.
HandleUsableAfterIntegrityError ==
    \A name \in CompNames :
        ComponentsNamed(db, name) = {} =>
            LET out == OnHandle(session, db, add_component(db, name))
            IN /\ out.err = "none"
               /\ ComponentsNamed(out.db, name) # {}
               /\ component \subseteq out.db.component

\* C24: a load_organisms call that fails on a malformed line (not exactly two
\* tab-separated fields) leaves the registry unchanged: no organism and no
\* component named by the lines before the malformed one has been added.
FailedLoadOrganismsChangesNothing ==
    \A input_file \in OrganismFiles :
        LET out == load_organisms(db, input_file)
        IN out.err = "ValueError" => out.db = db

====
